---- MODULE Spec2Model ----
(***************************************************************************)
(* Model of backend/app.py: the Flask chatbot backend.                     *)
(*                                                                         *)
(* The server keeps no mutable state of its own: every handler is a        *)
(* function of the request, the clock, the credential table `users` and    *)
(* SECRET_KEY.  The state of the model is the clock, the last request and  *)
(* its response, the handlers the request reached, and the history of      *)
(* successful logins (the tokens clients hold).                            *)
(*                                                                         *)
(* Text is a sequence of one-character strings, so that lower(), the `in`  *)
(* substring test, startswith() and slicing are computed, not assumed.     *)
(* Time is counted in ticks, TicksPerSec ticks to the second; a JWT `exp`  *)
(* claim is in whole seconds, as PyJWT writes it.                          *)
(***************************************************************************)
EXTENDS Integers, Sequences, FiniteSets, TLC

VARIABLES now, logins, req, resp, calls

vars == <<now, logins, req, resp, calls>>

(***************************************************************************)
(* Bounds of the model.                                                    *)
(***************************************************************************)
\* clock resolution: ticks per second (datetime has sub-second resolution)
TicksPerSec == 2
\* successful logins kept in the history
MaxLogins == 1

(***************************************************************************)
(* Text helpers (Python str operations).                                   *)
(***************************************************************************)
UpperAlpha == <<"A","B","C","D","E","F","G","H","I","J","K","L","M","N","O","P","Q","R","S","T","U","V","W","X","Y","Z">>
LowerAlpha == <<"a","b","c","d","e","f","g","h","i","j","k","l","m","n","o","p","q","r","s","t","u","v","w","x","y","z">>

\* str.lower() on one character
LowerChar(c) ==
    IF \E i \in 1..Len(UpperAlpha) : UpperAlpha[i] = c
    THEN LowerAlpha[CHOOSE i \in 1..Len(UpperAlpha) : UpperAlpha[i] = c]
    ELSE c

\* variant: lower() left out
Lower_Identity(s) == s

\* str.lower()
Lower(s) == [i \in 1..Len(s) |-> LowerChar(s[i])]

\* `needle in hay` for two str
Contains(needle, hay) ==
    \E i \in 0..(Len(hay) - Len(needle)) :
        SubSeq(hay, i + 1, i + Len(needle)) = needle

\* str.startswith(prefix)
StartsWith(s, prefix) ==
    /\ Len(s) >= Len(prefix)
    /\ SubSeq(s, 1, Len(prefix)) = prefix

\* two decimal digits (strftime %I, %M, %d)
Digit == <<"0","1","2","3","4","5","6","7","8","9">>
Digits2(n) == <<Digit[((n \div 10) % 10) + 1], Digit[(n % 10) + 1]>>

(***************************************************************************)
(* Configuration and the credential table.                                 *)
(***************************************************************************)
SECRET_KEY == "your-secret-key-change-in-production"

Str_admin == <<"a","d","m","i","n">>
Str_user == <<"u","s","e","r">>
Str_admin123 == <<"a","d","m","i","n","1","2","3">>
Str_user123 == <<"u","s","e","r","1","2","3">>
Str_AdminUser == <<"A","d","m","i","n"," ","U","s","e","r">>
Str_TestUser == <<"T","e","s","t"," ","U","s","e","r">>

users ==
    (Str_admin :> [password |-> Str_admin123, name |-> Str_AdminUser])
    @@ (Str_user :> [password |-> Str_user123, name |-> Str_TestUser])

\* timedelta(hours=24), in seconds
TOKEN_TTL == 24 * 60 * 60

(***************************************************************************)
(* JSON values of a request body, as request.get_json() returns them.      *)
(***************************************************************************)
JNone == [t |-> "null"]
JStr(s) == [t |-> "str", s |-> s]
JNum(n) == [t |-> "num", n |-> n]
JList(k) == [t |-> "list", len |-> k]
JObj(f) == [t |-> "obj", f |-> f]

\* Python truth value: None, "", 0, [] and {} are false
Truthy(v) ==
    CASE v.t = "null" -> FALSE
      [] v.t = "str" -> Len(v.s) > 0
      [] v.t = "num" -> v.n # 0
      [] v.t = "list" -> v.len > 0
      [] v.t = "obj" -> DOMAIN v.f # {}

\* only a dict has .get(); anything else raises AttributeError
HasGet(v) == v.t = "obj"

\* dict.get(key): the value, or None
Get(v, key) == IF key \in DOMAIN v.f THEN v.f[key] ELSE JNone

\* list and dict are unhashable: `x in users` raises TypeError on them
Hashable(v) == v.t \notin {"list", "obj"}

(***************************************************************************)
(* PyJWT: tokens, jwt.encode and jwt.decode.                               *)
(* A token is its header algorithm, its payload (a record holding the      *)
(* claims it has) and its signature; the HMAC is ideal: a signature equals *)
(* another exactly when key, algorithm and payload are equal.              *)
(***************************************************************************)
Sign(key, alg, payload) == [key |-> key, alg |-> alg, payload |-> payload]

\* timegm(dt.utctimetuple()): a datetime claim is written in whole seconds
ToEpochSeconds(t) == t \div TicksPerSec

\* jwt.encode(payload, key, algorithm='HS256'); exp is a datetime (in ticks)
jwt_encode(payload, key) ==
    LET claims == [payload EXCEPT !.exp = ToEpochSeconds(payload.exp)]
    IN [alg |-> "HS256", payload |-> claims, sig |-> Sign(key, "HS256", claims)]

\* a symbol of a header value: one character, or one compact JWT
Ch(s) == [i \in 1..Len(s) |-> [ch |-> s[i]]]
Jwt(tok) == <<[jwt |-> tok]>>

Bearer == Ch(<<"B","e","a","r","e","r"," ">>)

\* the text is the compact serialisation of exactly one token
IsJwt(text) == Len(text) = 1 /\ "jwt" \in DOMAIN text[1]

\* variant: expiry tested with < (a token lives one second longer)
Expired_Strict(exp, t) == exp * TicksPerSec < t

\* variant: expiry not tested
Expired_Never(exp, t) == FALSE

\* _validate_exp: ExpiredSignatureError when exp <= now
Expired(exp, t) == exp * TicksPerSec <= t

\* the header's alg is one of algorithms=['HS256']
AlgorithmAllowed(tok) == tok.alg = "HS256"

\* variant: the signature is compared with the HMAC under the key it names
SignatureOk_AnyKey(tok, key) == tok.sig = Sign(tok.sig.key, tok.alg, tok.payload)

\* the signature is the HMAC of header and payload under the key
SignatureOk(tok, key) == tok.sig = Sign(key, tok.alg, tok.payload)

\* jwt.decode(token, key, algorithms=['HS256']) at time t:
\* the payload, or an exception (DecodeError, InvalidAlgorithmError,
\* InvalidSignatureError, ExpiredSignatureError)
jwt_decode(text, key, t) ==
    IF ~IsJwt(text) THEN [ok |-> FALSE, error |-> "DecodeError"]
    ELSE LET tok == text[1].jwt IN
         IF ~AlgorithmAllowed(tok) THEN [ok |-> FALSE, error |-> "InvalidAlgorithmError"]
         ELSE IF ~SignatureOk(tok, key) THEN [ok |-> FALSE, error |-> "InvalidSignatureError"]
         ELSE IF "exp" \in DOMAIN tok.payload /\ Expired(tok.payload.exp, t)
              THEN [ok |-> FALSE, error |-> "ExpiredSignatureError"]
         ELSE [ok |-> TRUE, data |-> tok.payload]

(***************************************************************************)
(* Responses.                                                              *)
(***************************************************************************)
\* jsonify(body), status
Response(status, json) == [status |-> status, json |-> json]

\* an exception no handler catches: Flask answers 500
Raise(exc) == Response(500, [exception |-> exc])

(***************************************************************************)
(* token_required: the wrapper `decorated`, up to the call of f.           *)
(* auth is the Authorization header: absent, or present with a value.      *)
(* The result either passes current_user on to f or is the response.       *)
(***************************************************************************)
NoHeader == [present |-> FALSE, value |-> <<>>]
Header(v) == [present |-> TRUE, value |-> v]

\* variant: the test for a missing token left out
TokenMissing_Never(auth) == FALSE

\* `not token`: the header is absent (None) or its value is empty
TokenMissing(auth) == ~auth.present \/ auth.value = <<>>

\* variant: the prefix is never stripped
StripBearer_Never(v) == v

\* if token.startswith('Bearer '): token = token[7:]
StripBearer(v) ==
    IF StartsWith(v, Bearer) THEN SubSeq(v, Len(Bearer) + 1, Len(v)) ELSE v

decorated(auth, t) ==
    IF TokenMissing(auth)
    THEN [pass |-> FALSE, response |-> Response(401, [message |-> "Token is missing!"])]
    ELSE LET d == jwt_decode(StripBearer(auth.value), SECRET_KEY, t) IN
         IF d.ok /\ "username" \in DOMAIN d.data
         THEN [pass |-> TRUE, current_user |-> d.data.username]
         ELSE [pass |-> FALSE, response |-> Response(401, [message |-> "Token is invalid!"])]

(***************************************************************************)
(* login                                                                   *)
(***************************************************************************)
\* variant: the password is compared with the wrong field of the record
CredentialsOk_WrongField(username, password) ==
    /\ username.t = "str"
    /\ username.s \in DOMAIN users
    /\ JStr(users[username.s].name) = password

\* username in users and users[username]['password'] == password
CredentialsOk(username, password) ==
    /\ username.t = "str"
    /\ username.s \in DOMAIN users
    /\ JStr(users[username.s].password) = password

login(data, t) ==
    IF ~Truthy(data) THEN Response(400, [message |-> "Missing username or password"])
    ELSE IF ~HasGet(data) THEN Raise("AttributeError")
    ELSE IF ~Truthy(Get(data, "username")) \/ ~Truthy(Get(data, "password"))
         THEN Response(400, [message |-> "Missing username or password"])
    ELSE LET username == data.f["username"]
             password == data.f["password"]
         IN IF ~Hashable(username) THEN Raise("TypeError")
            ELSE IF CredentialsOk(username, password)
            THEN LET token_payload == [username |-> username.s,
                                       name |-> users[username.s].name,
                                       exp |-> t + TOKEN_TTL * TicksPerSec]
                     token == jwt_encode(token_payload, SECRET_KEY)
                 IN Response(200, [message |-> "Login successful",
                                   token |-> token,
                                   user |-> [username |-> username.s,
                                             name |-> users[username.s].name]])
            ELSE Response(401, [message |-> "Invalid username or password"])

(***************************************************************************)
(* chat                                                                    *)
(***************************************************************************)
Kw_hello == <<"h","e","l","l","o">>
Kw_hi == <<"h","i">>
Kw_how_are_you == <<"h","o","w"," ","a","r","e"," ","y","o","u">>
Kw_bye == <<"b","y","e">>
Kw_goodbye == <<"g","o","o","d","b","y","e">>
Kw_help == <<"h","e","l","p">>
Kw_weather == <<"w","e","a","t","h","e","r">>
Kw_time == <<"t","i","m","e">>
Kw_date == <<"d","a","t","e">>
Kw_name == <<"n","a","m","e">>

Txt_Hello == <<"H","e","l","l","o"," ">>
Txt_HowCanIHelp == <<"!"," ","H","o","w"," ","c","a","n"," ","I"," ","h","e","l","p"," ","y","o","u"," ","t","o","d","a","y","?">>
Txt_Wellbeing == <<"I","'","m"," ","d","o","i","n","g"," ","g","r","e","a","t","!"," ","T","h","a","n","k","s"," ","f","o","r"," ","a","s","k","i","n","g","."," ","H","o","w"," ","c","a","n"," ","I"," ","a","s","s","i","s","t"," ","y","o","u","?">>
Txt_Farewell == <<"G","o","o","d","b","y","e","!"," ","H","a","v","e"," ","a"," ","g","r","e","a","t"," ","d","a","y","!">>
Txt_Help == <<"I","'","m"," ","h","e","r","e"," ","t","o"," ","h","e","l","p","!"," ","Y","o","u"," ","c","a","n"," ","a","s","k"," ","m","e"," ","q","u","e","s","t","i","o","n","s"," ","o","r"," ","j","u","s","t"," ","c","h","a","t"," ","w","i","t","h"," ","m","e",".">>
Txt_Weather == <<"I","'","m"," ","s","o","r","r","y",","," ","I"," ","d","o","n","'","t"," ","h","a","v","e"," ","a","c","c","e","s","s"," ","t","o"," ","w","e","a","t","h","e","r"," ","d","a","t","a"," ","y","e","t",","," ","b","u","t"," ","i","t","'","s"," ","p","r","o","b","a","b","l","y"," ","n","i","c","e"," ","w","h","e","r","e","v","e","r"," ","y","o","u"," ","a","r","e","!">>
Txt_TimeIs == <<"T","h","e"," ","c","u","r","r","e","n","t"," ","t","i","m","e"," ","i","s"," ">>
Txt_DateIs == <<"T","o","d","a","y","'","s"," ","d","a","t","e"," ","i","s"," ">>
Txt_Name == <<"I","'","m"," ","C","h","a","t","B","o","t",","," ","y","o","u","r"," ","f","r","i","e","n","d","l","y"," ","A","I"," ","a","s","s","i","s","t","a","n","t","!">>
Txt_Default == <<"T","h","a","t","'","s"," ","i","n","t","e","r","e","s","t","i","n","g","!"," ","T","e","l","l"," ","m","e"," ","m","o","r","e",","," ","o","r"," ","a","s","k"," ","m","e"," ","s","o","m","e","t","h","i","n","g"," ","e","l","s","e",".">>

\* datetime.now().strftime('%I:%M %p'); the clock counts from midnight
StrfTime(t) ==
    LET secs == t \div TicksPerSec
        hour == (secs \div 3600) % 24
        minute == (secs \div 60) % 60
        hour12 == IF hour % 12 = 0 THEN 12 ELSE hour % 12
    IN Digits2(hour12) \o <<":">> \o Digits2(minute) \o <<" ">>
       \o (IF hour < 12 THEN <<"A","M">> ELSE <<"P","M">>)

\* datetime.now().strftime('%B %d, %Y'); the clock counts from 1 January 1970
StrfDate(t) ==
    LET day == (t \div TicksPerSec) \div (24 * 3600)
    IN <<"J","a","n","u","a","r","y"," ">> \o Digits2(day + 1)
       \o <<","," ","1","9","7","0">>

\* the keyword table: the first branch whose keyword is in the message
bot_response(current_user, user_message, t) ==
    IF Contains(Kw_hello, user_message) \/ Contains(Kw_hi, user_message)
        THEN Txt_Hello \o current_user \o Txt_HowCanIHelp
    ELSE IF Contains(Kw_how_are_you, user_message) THEN Txt_Wellbeing
    ELSE IF Contains(Kw_bye, user_message) \/ Contains(Kw_goodbye, user_message)
        THEN Txt_Farewell
    ELSE IF Contains(Kw_help, user_message) THEN Txt_Help
    ELSE IF Contains(Kw_weather, user_message) THEN Txt_Weather
    ELSE IF Contains(Kw_time, user_message) THEN Txt_TimeIs \o StrfTime(t)
    ELSE IF Contains(Kw_date, user_message) THEN Txt_DateIs \o StrfDate(t)
    ELSE IF Contains(Kw_name, user_message) THEN Txt_Name
    ELSE Txt_Default

\* the handler; `reply` tells whether the keyword matching was reached
chat(current_user, data, t) ==
    IF ~Truthy(data)
    THEN [response |-> Response(400, [message |-> "No message provided"]), reply |-> FALSE]
    ELSE IF ~HasGet(data) THEN [response |-> Raise("AttributeError"), reply |-> FALSE]
    ELSE IF ~Truthy(Get(data, "message"))
    THEN [response |-> Response(400, [message |-> "No message provided"]), reply |-> FALSE]
    ELSE IF data.f["message"].t # "str"
    THEN [response |-> Raise("AttributeError"), reply |-> FALSE]
    ELSE [response |-> Response(200,
              [response |-> bot_response(current_user, Lower(data.f["message"].s), t),
               timestamp |-> t]),
          reply |-> TRUE]

(***************************************************************************)
(* verify_token and health                                                 *)
(***************************************************************************)
verify_token(current_user) ==
    Response(200, [message |-> "Token is valid", user |-> current_user])

health == Response(200, [status |-> "healthy"])

(***************************************************************************)
(* Routes: @app.route + @token_required applied to the handlers.           *)
(* A result is the response and the record of the handler that was called. *)
(***************************************************************************)
NoCall == [handler |-> "none", current_user |-> <<>>, reply |-> FALSE]

api_login(data, t) ==
    [response |-> login(data, t),
     calls |-> [handler |-> "login", current_user |-> <<>>, reply |-> FALSE]]

api_chat(auth, data, t) ==
    LET g == decorated(auth, t) IN
    IF g.pass
    THEN LET r == chat(g.current_user, data, t) IN
         [response |-> r.response,
          calls |-> [handler |-> "chat", current_user |-> g.current_user,
                     reply |-> r.reply]]
    ELSE [response |-> g.response, calls |-> NoCall]

api_verify(auth, t) ==
    LET g == decorated(auth, t) IN
    IF g.pass
    THEN [response |-> verify_token(g.current_user),
          calls |-> [handler |-> "verify_token", current_user |-> g.current_user,
                     reply |-> FALSE]]
    ELSE [response |-> g.response, calls |-> NoCall]

api_health ==
    [response |-> health,
     calls |-> [handler |-> "health", current_user |-> <<>>, reply |-> FALSE]]

(***************************************************************************)
(* The requests clients send.                                              *)
(***************************************************************************)
Str_ghost == <<"g","h","o","s","t">>
Str_wrong == <<"w","r","o","n","g">>
Msg_HelloThere == <<"H","e","l","l","o"," ","t","h","e","r","e">>
Msg_BYE == <<"B","Y","E">>
Msg_WhatIsTheDate == <<"w","h","a","t"," ","i","s"," ","t","h","e"," ","d","a","t","e">>

Creds(u, p) == JObj([username |-> u, password |-> p])

LoginBodies ==
    { JNone,
      JList(1),
      JObj([username |-> JStr(Str_admin)]),
      Creds(JStr(<<>>), JStr(Str_admin123)),
      Creds(JStr(Str_admin), JStr(Str_admin123)),
      Creds(JStr(Str_user), JStr(Str_user123)),
      Creds(JStr(Str_admin), JStr(Str_user123)),
      Creds(JStr(Str_admin), JNum(5)),
      Creds(JStr(Str_ghost), JStr(Str_wrong)),
      Creds(JNum(5), JStr(Str_admin123)),
      Creds(JList(1), JStr(Str_admin123)) }

ChatBodies ==
    { JNone,
      JObj(<<>>),
      JList(1),
      JObj([text |-> JStr(Msg_HelloThere)]),
      JObj([message |-> JStr(<<>>)]),
      JObj([message |-> JNum(5)]),
      JObj([message |-> JStr(Msg_HelloThere)]),
      JObj([message |-> JStr(Msg_BYE)]),
      JObj([message |-> JStr(Kw_how_are_you)]),
      JObj([message |-> JStr(Msg_WhatIsTheDate)]) }

\* a key the server does not use
OtherKey == "attacker-key"

\* the tokens login has handed out
HeldTokens == { l.token : l \in logins }

\* a token under another (or no) signature, and a held token with its payload
\* changed under the signature it came with
Forged(t) ==
    LET p == [username |-> Str_admin, name |-> Str_AdminUser,
              exp |-> ToEpochSeconds(t) + TOKEN_TTL]
    IN { [alg |-> "HS256", payload |-> p, sig |-> Sign(OtherKey, "HS256", p)],
         [alg |-> "none", payload |-> p, sig |-> Sign("", "none", p)] }

Tampered ==
    { [tk EXCEPT !.payload.exp = @ + 60] : tk \in HeldTokens }
    \cup { [tk EXCEPT !.payload.username = Str_ghost] : tk \in HeldTokens }

\* what a client without SECRET_KEY can present
ClientTokens(t) == HeldTokens \cup Forged(t) \cup Tampered

\* tokens signed with SECRET_KEY outside login: any payload
KeySigned(p) == [alg |-> "HS256", payload |-> p, sig |-> Sign(SECRET_KEY, "HS256", p)]

KeyHolderTokens(t) ==
    { KeySigned([username |-> Str_ghost, name |-> Str_ghost, exp |-> ToEpochSeconds(t) + 1]),
      KeySigned([name |-> Str_AdminUser, exp |-> ToEpochSeconds(t) + 1]),
      KeySigned([username |-> Str_admin, name |-> Str_AdminUser]),
      KeySigned([username |-> Str_admin, name |-> Str_AdminUser, exp |-> ToEpochSeconds(t)]) }

\* the values of an Authorization header built from a set of tokens
HeaderValues(tokens) ==
    { Jwt(tk) : tk \in tokens }
    \cup { Bearer \o Jwt(tk) : tk \in tokens }
    \cup { Ch(<<"b","e","a","r","e","r"," ">>) \o Jwt(tk) : tk \in HeldTokens }
    \cup { Bearer \o Bearer \o Jwt(tk) : tk \in HeldTokens }
    \cup { <<>>, Bearer, Ch(<<"x">>), Bearer \o Ch(<<"x">>) }

Headers(tokens) == {NoHeader} \cup { Header(v) : v \in HeaderValues(tokens) }

ClientHeaders == Headers(ClientTokens(now))
AllHeaders == Headers(ClientTokens(now) \cup KeyHolderTokens(now))

\* the instants the clock visits: a whole second and the tick after it, at the
\* start and 23h59m, 24h and 24h01m later
Instants ==
    { base * TicksPerSec + off :
        base \in {0, TOKEN_TTL - 60, TOKEN_TTL, TOKEN_TTL + 60},
        off \in {0, 1} }

(***************************************************************************)
(* The state machine.                                                      *)
(***************************************************************************)
NoRequest == [endpoint |-> "none", auth |-> NoHeader, body |-> JNone]
NoResponse == Response(0, [none |-> TRUE])

Init ==
    /\ now = 0
    /\ logins = {}
    /\ req = NoRequest
    /\ resp = NoResponse
    /\ calls = NoCall

\* POST /api/login
LoginRequest ==
    \E data \in LoginBodies :
        LET r == api_login(data, now) IN
        /\ req = NoRequest
        /\ r.response.status = 200 => Cardinality(logins) < MaxLogins
        /\ req' = [endpoint |-> "login", auth |-> NoHeader, body |-> data]
        /\ resp' = r.response
        /\ calls' = r.calls
        /\ logins' = IF r.response.status = 200
                     THEN logins \cup {[username |-> r.response.json.user.username,
                                        at |-> now,
                                        token |-> r.response.json.token]}
                     ELSE logins
        /\ UNCHANGED now

\* POST /api/chat
ChatRequest(headers) ==
    \E auth \in headers, data \in ChatBodies :
        LET r == api_chat(auth, data, now) IN
        /\ req = NoRequest
        /\ req' = [endpoint |-> "chat", auth |-> auth, body |-> data]
        /\ resp' = r.response
        /\ calls' = r.calls
        /\ UNCHANGED <<now, logins>>

\* GET /api/verify
VerifyRequest(headers) ==
    \E auth \in headers :
        LET r == api_verify(auth, now) IN
        /\ req = NoRequest
        /\ req' = [endpoint |-> "verify", auth |-> auth, body |-> JNone]
        /\ resp' = r.response
        /\ calls' = r.calls
        /\ UNCHANGED <<now, logins>>

\* GET /api/health
HealthRequest ==
    /\ req = NoRequest
    /\ req' = [endpoint |-> "health", auth |-> NoHeader, body |-> JNone]
    /\ resp' = api_health.response
    /\ calls' = api_health.calls
    /\ UNCHANGED <<now, logins>>

\* the response is sent and the request is over: nothing of it is kept
Deliver ==
    /\ req # NoRequest
    /\ req' = NoRequest
    /\ resp' = NoResponse
    /\ calls' = NoCall
    /\ UNCHANGED <<now, logins>>

\* time passes between requests
Advance ==
    \E t \in Instants :
        /\ req = NoRequest
        /\ t > now
        /\ now' = t
        /\ UNCHANGED <<logins, req, resp, calls>>

Next ==
    \/ LoginRequest
    \/ ChatRequest(AllHeaders)
    \/ VerifyRequest(AllHeaders)
    \/ HealthRequest
    \/ Deliver
    \/ Advance

Spec == Init /\ [][Next]_vars

\* clients that do not know SECRET_KEY
NextClient ==
    \/ LoginRequest
    \/ ChatRequest(ClientHeaders)
    \/ VerifyRequest(ClientHeaders)
    \/ HealthRequest
    \/ Deliver
    \/ Advance

SpecClient == Init /\ [][NextClient]_vars

(***************************************************************************)
(* Properties.  The predicates below are stated on their own terms (the    *)
(* signature, the expiry and the credentials are written out), not through *)
(* the operators of the handlers.                                          *)
(***************************************************************************)
Protected == req.endpoint \in {"chat", "verify"}

HandlerInvoked == calls.handler \in {"chat", "verify_token"}

\* the token string the gate is given: the header value less one "Bearer "
Presented ==
    IF Len(req.auth.value) >= 7
       /\ SubSeq(req.auth.value, 1, 7) = Ch(<<"B","e","a","r","e","r"," ">>)
    THEN SubSeq(req.auth.value, 8, Len(req.auth.value))
    ELSE req.auth.value

\* the text is one token whose HS256 signature verifies against SECRET_KEY
Verifies(text) ==
    /\ Len(text) = 1
    /\ "jwt" \in DOMAIN text[1]
    /\ text[1].jwt.alg = "HS256"
    /\ text[1].jwt.sig = [key |-> SECRET_KEY, alg |-> "HS256",
                          payload |-> text[1].jwt.payload]

HasClaim(text, c) == c \in DOMAIN text[1].jwt.payload

\* the token's exp claim, in ticks
ExpTicks(text) == text[1].jwt.payload.exp * TicksPerSec

\* signature, username and expiry: what the gate asks of a token at time t
Valid(text, t) ==
    /\ Verifies(text)
    /\ HasClaim(text, "username")
    /\ HasClaim(text, "exp") => ExpTicks(text) > t

InvalidResponse == [status |-> 401, json |-> [message |-> "Token is invalid!"]]
MissingResponse == [status |-> 401, json |-> [message |-> "Token is missing!"]]

\* C1 (as stated): the gate accepts a token and calls the handler if and only
\* if its signature verifies and its encoded expiry is strictly later than now.
C1_Original ==
    Protected =>
        (HandlerInvoked <=>
            /\ req.auth.present
            /\ Verifies(Presented)
            /\ HasClaim(Presented, "exp")
            /\ ExpTicks(Presented) > now)

\* C1 (amended): the gate accepts a token and calls the handler if and only if
\* its HS256 signature verifies against SECRET_KEY, its payload has a username,
\* and its exp claim, when it has one, is strictly later than now; the handler
\* is given that username.  Nothing else (the logins made, the credential
\* table, the payload's other fields) enters the condition.
C1_Gate ==
    Protected =>
        /\ HandlerInvoked <=> (req.auth.present /\ Valid(Presented, now))
        /\ HandlerInvoked => calls.current_user = Presented[1].jwt.payload.username

\* a signed, unexpired token without a username is turned away, and a signed
\* token naming a user outside the table is let in
C1_Witness ==
    /\ Protected
    /\ req.auth.present
    /\ Verifies(Presented)
    /\ HasClaim(Presented, "exp")
    /\ ExpTicks(Presented) > now
    /\ ~HasClaim(Presented, "username")
    /\ resp = InvalidResponse

\* the (username, password) pairs of the credential table
ValidPair(data) ==
    /\ data.t = "obj"
    /\ {"username", "password"} \subseteq DOMAIN data.f
    /\ \/ /\ data.f.username = JStr(<<"a","d","m","i","n">>)
          /\ data.f.password = JStr(<<"a","d","m","i","n","1","2","3">>)
       \/ /\ data.f.username = JStr(<<"u","s","e","r">>)
          /\ data.f.password = JStr(<<"u","s","e","r","1","2","3">>)

\* C2: a login with a pair of the credential table returns 200 with a token
\* that the gate accepts at the same instant, raw or after "Bearer ", and the
\* identity the gate forwards is the username that logged in.
C2_LoginRoundTrip ==
    (req.endpoint = "login" /\ ValidPair(req.body)) =>
        /\ resp.status = 200
        /\ "token" \in DOMAIN resp.json
        /\ \A v \in {Jwt(resp.json.token), Bearer \o Jwt(resp.json.token)} :
              /\ api_verify(Header(v), now).response.status = 200
              /\ api_verify(Header(v), now).calls.current_user = req.body.f.username.s
              /\ decorated(Header(v), now).pass
              /\ decorated(Header(v), now).current_user = req.body.f.username.s

C2_Witness ==
    /\ req.endpoint = "login"
    /\ ValidPair(req.body)
    /\ req.body.f.username.s = <<"u","s","e","r">>
    /\ resp.status = 200
    /\ now > 0

\* both fields are there and true, but the pair is not one of the table
BadPair(data) ==
    /\ data.t = "obj"
    /\ {"username", "password"} \subseteq DOMAIN data.f
    /\ Truthy(data.f.username)
    /\ Truthy(data.f.password)
    /\ ~ValidPair(data)

\* C3: a login whose username and password are both present and non-empty but
\* are no pair of the credential table returns 401 and carries no token.
C3_BadCredentials ==
    (req.endpoint = "login" /\ BadPair(req.body)) =>
        /\ resp.status = 401
        /\ "token" \notin DOMAIN resp.json

\* C4 (as stated): a token issued at time t carries expiry t+24h; the gate
\* accepts it at every time before t+24h and rejects it at or after t+24h.
C4_Original ==
    \A l \in logins :
        LET deadline == l.at + 24 * 3600 * TicksPerSec IN
        /\ now < deadline => decorated(Header(Jwt(l.token)), now).pass
        /\ now >= deadline => ~decorated(Header(Jwt(l.token)), now).pass

\* C4 (amended): a token issued at time t carries expiry floor(t)+24h, t cut
\* to whole seconds; the gate accepts it at every time before floor(t)+24h
\* (so at t+23h59m) and rejects it at every time at or after floor(t)+24h
\* (so at exp = now, at t+24h and at t+24h01m).
C4_Expiry ==
    \A l \in logins :
        LET deadline == ((l.at \div TicksPerSec) + 24 * 3600) * TicksPerSec IN
        /\ l.token.payload.exp * TicksPerSec = deadline
        /\ now < deadline =>
              /\ decorated(Header(Jwt(l.token)), now).pass
              /\ decorated(Header(Jwt(l.token)), now).current_user = l.username
        /\ now >= deadline => ~decorated(Header(Jwt(l.token)), now).pass
        /\ (Protected /\ req.auth = Header(Jwt(l.token))) =>
              (HandlerInvoked <=> now < deadline)
        /\ now = l.at + (24 * 3600 - 60) * TicksPerSec =>
              decorated(Header(Jwt(l.token)), now).pass
        /\ now >= l.at + 24 * 3600 * TicksPerSec =>
              ~decorated(Header(Jwt(l.token)), now).pass

\* a token issued in mid-second is refused at floor(t)+24h, before t+24h
C4_Witness ==
    \E l \in logins :
        /\ l.at % TicksPerSec # 0
        /\ now = l.token.payload.exp * TicksPerSec
        /\ now < l.at + 24 * 3600 * TicksPerSec
        /\ req.endpoint = "verify"
        /\ req.auth = Header(Jwt(l.token))
        /\ resp = InvalidResponse

\* C5: a request to a protected endpoint without an Authorization header is
\* answered 401 "Token is missing!" and the handler is not called, whatever
\* the body.
C5_MissingHeader ==
    (Protected /\ ~req.auth.present) =>
        /\ resp = MissingResponse
        /\ calls = NoCall

C5_Witness ==
    /\ req.endpoint = "chat"
    /\ ~req.auth.present
    /\ req.body = JObj([message |-> JStr(Msg_HelloThere)])
    /\ resp = MissingResponse
    /\ logins # {}

\* C6 (as stated): a protected request whose Authorization header is present
\* but whose token fails validation is answered 401 "Token is invalid!", the
\* same for every cause, and the handler is not called.
C6_Original ==
    (Protected /\ req.auth.present /\ ~Valid(Presented, now)) =>
        /\ resp = InvalidResponse
        /\ calls = NoCall

\* C6 (amended): a protected request whose Authorization header is present and
\* not empty but whose token fails validation is answered 401 "Token is
\* invalid!", the same for every cause, and the handler is not called.
C6_InvalidToken ==
    (Protected /\ req.auth.present /\ req.auth.value # <<>> /\ ~Valid(Presented, now)) =>
        /\ resp = InvalidResponse
        /\ calls = NoCall

\* an expired token of a real login is answered as any other invalid token
C6_Witness ==
    /\ Protected
    /\ \E l \in logins :
          /\ req.auth = Header(Bearer \o Jwt(l.token))
          /\ now >= l.token.payload.exp * TicksPerSec
    /\ resp = InvalidResponse
    /\ calls = NoCall

\* a chat request carrying "Hello there" and an unexpired token of a login of admin
HelloFromAdmin ==
    /\ req.endpoint = "chat"
    /\ req.body = JObj([message |-> JStr(<<"H","e","l","l","o"," ","t","h","e","r","e">>)])
    /\ \E l \in logins :
          /\ l.username = <<"a","d","m","i","n">>
          /\ req.auth \in {Header(Jwt(l.token)), Header(Bearer \o Jwt(l.token))}
          /\ now < l.token.payload.exp * TicksPerSec

\* C7 (as stated): the reply to "Hello there" under admin's token is 200 with a
\* timestamp and a text containing "Hello Admin User".
C7_Original ==
    HelloFromAdmin =>
        /\ resp.status = 200
        /\ "timestamp" \in DOMAIN resp.json
        /\ Contains(<<"H","e","l","l","o"," ","A","d","m","i","n"," ","U","s","e","r">>,
                    resp.json.response)

\* C7 (amended): the reply to "Hello there" under admin's token is 200 with a
\* timestamp and a text containing "Hello admin": the greeting names the
\* username the token carries, not the display name.
C7_Greeting ==
    HelloFromAdmin =>
        /\ resp.status = 200
        /\ "timestamp" \in DOMAIN resp.json
        /\ Contains(<<"H","e","l","l","o"," ","a","d","m","i","n">>, resp.json.response)
        /\ ~Contains(<<"A","d","m","i","n"," ","U","s","e","r">>, resp.json.response)

C7_Witness ==
    /\ HelloFromAdmin
    /\ resp.status = 200
    /\ calls.reply

\* the body is absent, has no message field, or has an empty message
NoMessage(data) ==
    \/ data.t = "null"
    \/ data.t # "obj"
    \/ "message" \notin DOMAIN data.f
    \/ data.f.message = JStr(<<>>)

\* C8: a chat request that passes the gate and whose body is absent, lacks the
\* message field or has an empty message is answered 400 and the keyword
\* matching is not reached.
C8_NoMessage ==
    (req.endpoint = "chat" /\ calls.handler = "chat" /\ NoMessage(req.body)) =>
        /\ resp.status = 400
        /\ ~calls.reply
        /\ "response" \notin DOMAIN resp.json

\* the token strings a client may put in the header at this moment
TokenStrings == HeaderValues(ClientTokens(now) \cup KeyHolderTokens(now))

BeginsWithBearer(v) ==
    Len(v) >= 7 /\ SubSeq(v, 1, 7) = Ch(<<"B","e","a","r","e","r"," ">>)

\* C9 (as stated): for every token string t, the header t and the header
\* "Bearer " followed by t have the same outcome.
C9_Original ==
    \A v \in TokenStrings :
        v # <<>> => decorated(Header(v), now) = decorated(Header(Bearer \o v), now)

\* C9 (amended): for every non-empty token string t that does not itself begin
\* with "Bearer ", the header t and the header "Bearer " followed by t have the
\* same outcome; only the exact prefix "Bearer " is stripped, and once: after
\* "bearer " or after a second "Bearer " no token is accepted.  (Between
\* requests the statement is taken over every token string of the moment; on
\* a request, over the one presented.)
C9_BearerOptional ==
    /\ \A v \in (IF req = NoRequest THEN TokenStrings ELSE {Presented}) :
          (v # <<>> /\ ~BeginsWithBearer(v)) =>
              /\ decorated(Header(v), now) = decorated(Header(Bearer \o v), now)
              /\ api_verify(Header(v), now) = api_verify(Header(Bearer \o v), now)
              /\ ~decorated(Header(Ch(<<"b","e","a","r","e","r"," ">>) \o v), now).pass
              /\ ~decorated(Header(Bearer \o Bearer \o v), now).pass
    /\ (Protected /\ req.auth.present /\ BeginsWithBearer(req.auth.value)) =>
          LET rest == SubSeq(req.auth.value, 8, Len(req.auth.value)) IN
          IF BeginsWithBearer(rest)
          THEN ~HandlerInvoked
          ELSE HandlerInvoked <=> decorated(Header(rest), now).pass

\* a held token is accepted behind "Bearer " as it is without
C9_Witness ==
    /\ Protected
    /\ HandlerInvoked
    /\ \E l \in logins :
          /\ req.auth = Header(Bearer \o Jwt(l.token))
          /\ decorated(Header(Jwt(l.token)), now).pass
          /\ calls.current_user = l.username

\* C10: for clients that do not know SECRET_KEY, a protected handler is only
\* ever called with an identity that is a key of the credential table and for
\* which a login succeeded before, less than 24 hours ago.
C10_OnlyAfterLogin ==
    HandlerInvoked =>
        /\ calls.current_user \in {<<"a","d","m","i","n">>, <<"u","s","e","r">>}
        /\ \E l \in logins :
              /\ l.username = calls.current_user
              /\ l.at <= now
              /\ now - l.at < 24 * 3600 * TicksPerSec

C10_Witness ==
    /\ HandlerInvoked
    /\ calls.handler = "chat"
    /\ \E l \in logins : l.username = calls.current_user /\ l.at < now

====
